---- MODULE Spec2Model ----
(***************************************************************************)
(* ReDoS analysis pipeline of joutei/redos.                                *)
(*                                                                         *)
(*   quick-analysis.js        analyzePatterns / main  -> quick-analysis.json*)
(*   performance-benchmark.js main / benchmarkPattern <- quick-analysis.json*)
(*   evaluate-tools.js        two revisions of analyzeProject              *)
(*                                                                         *)
(* A run is one of these routines, chosen in Init:                         *)
(*   "quick"     quick-analysis.js main, followed by the benchmark process *)
(*               that loads the file it has written;                       *)
(*   "extractV1" analyzeProject, evaluate-tools.js lines 293-425;          *)
(*   "extractV2" analyzeProject, evaluate-tools.js lines 608-682;          *)
(*   "benchmark" performance-benchmark.js main started on a                *)
(*               quick-analysis.json that is already there;                *)
(*   "quickExtract", "extractRegexFromFileV1", "extractRegexFromFileV2"    *)
(*               one of the three extraction functions applied to the text *)
(*               of one source file;                                       *)
(*   "evaluateTools" evaluateTools, evaluate-tools.js lines 62-155.        *)
(* A source text is the sequence of its characters.                        *)
(*                                                                         *)
(* The RegExp constructor, redos-detector's isSafe and RegExp.test are the *)
(* environment: what they do with a candidate is part of the candidate     *)
(* (fields compile, verdict, message) or chosen when the call is made.     *)
(* A message is the sequence of its words.                                 *)
(***************************************************************************)
EXTENDS Integers, Sequences, FiniteSets, TLC

VARIABLES
  routine,         \* which program runs
  pc,              \* position in the running program
  files,           \* per source file: project, exists, extracted patterns
  fileIdx,         \* index of the file main is at
  patterns,        \* the candidate list the running analysis iterates over
  idx,             \* index of the forEach / for-of iteration
  vulnerable,      \* local list of analyzePatterns / vulnerablePatterns
  safe,            \* local list of analyzePatterns / safePatterns
  errorPatterns,   \* errorPatterns of analyzeProject
  logged,          \* number of ERROR lines written by the catch handler
  resultKeys,      \* Object.keys(allResults), insertion order
  allResults,      \* allResults[project] = {vulnerable, safe}
  analysisResults, \* contents of analysis/results/quick-analysis.json
  projIdx,         \* benchmark main: index into Object.keys(results)
  todo,            \* vulnerablePatterns.slice(0, 3) of the current project
  vIdx,            \* index into todo
  calls,           \* the arguments benchmarkPattern has been called with:
                   \* the vulnerable entry and the test inputs
  testInputs,      \* benchmarkPattern: testInputs
  engine,          \* what regex.test does on each of the testInputs
  inIdx,           \* benchmarkPattern: index of the forEach iteration
  results,         \* benchmarkPattern: results
  timers,          \* number of pending (armed, not cleared) timers
  sinceArm,        \* time elapsed since the pending timer was armed, ms
  timedOut,        \* benchmarkPattern: timedOut
  benchKeys,       \* Object.keys(allBenchmarks), insertion order
  allBenchmarks,   \* allBenchmarks[project] = list of benchmark entries
  status,          \* severity printed for every benchmark entry
  projectResults,  \* the results object analyzeProject returns
  testCases,       \* the test cases main of quick-analysis.js builds
  tools,           \* evaluateTools: what each tool does on each test case
  evalIdx,         \* evaluateTools: index of the forEach iteration
  evalResults,     \* evaluateTools: results
  bestTool         \* evaluateTools: bestTool

vars == << routine, pc, files, fileIdx, patterns, idx, vulnerable, safe,
           errorPatterns, logged, resultKeys, allResults, analysisResults,
           projIdx, todo, vIdx, calls, testInputs, engine, inIdx, results,
           timers, sinceArm, timedOut, benchKeys, allBenchmarks, status,
           projectResults, testCases, tools, evalIdx, evalResults,
           bestTool >>

evalVars == << tools, evalIdx, evalResults, bestTool >>

analysisVars == << files, fileIdx, patterns, idx, vulnerable, safe,
                   errorPatterns, logged, resultKeys, allResults,
                   projectResults, testCases >>

benchVars == << projIdx, todo, vIdx, calls, testInputs, engine, inIdx,
                results, timers, sinceArm, timedOut, benchKeys,
                allBenchmarks, status >>

----------------------------------------------------------------------------
(* Bounds of the model *)

MaxPatterns == 3     \* candidates extracted in one run, over all files
MaxSecondFile == 1   \* candidates extracted from the second target file
MaxSnippets == 2     \* regex expressions in the text given to an extraction

----------------------------------------------------------------------------
(* Program constants *)

DEADLINE == 5000          \* setTimeout(..., 5000)
TopN == 3                 \* vulnerablePatterns.slice(0, 3)
HighMs == 1000            \* maxTime > 1000
MediumMs == 100           \* maxTime > 100
MaxAnalyzed == 100        \* Math.min(100, allPatterns.length)
MaxPatternLength == 300   \* patternInfo.pattern.length > 300
NegInfinity == -1         \* Math.max() of no argument; below every duration

Min(a, b) == IF a < b THEN a ELSE b

\* projectName of quick-analysis.js main: the target files' projects
Projects == << "validator.js", "moment.js" >>

\* the target files of quick-analysis.js main that the model lets exist
TargetFiles == << [file |-> "isCreditCard.js", project |-> "validator.js"],
                  [file |-> "isEmail.js", project |-> "validator.js"],
                  [file |-> "from-string.js", project |-> "moment.js"] >>

----------------------------------------------------------------------------
(* Candidates: what extraction hands to the analysis.  compile is what     *)
(* new RegExp(pattern, flags) does, verdict what isSafe does, message the  *)
(* text of the error either of them throws, features the substrings that   *)
(* generateReDoSInputs and generateTestInputs look for and that the        *)
(* pattern includes.                                                       *)

Cand(pattern, flags, length, nul, compile, verdict, message, features) ==
  [ pattern |-> pattern, flags |-> flags, length |-> length, nul |-> nul,
    compile |-> compile, verdict |-> verdict, message |-> message,
    features |-> features, analysis |-> "unset" ]

SafeCand      == Cand("^[a-zA-Z0-9]+$", {}, 14, FALSE, "ok", "safe", << >>, {"+"})
VulnCand      == Cand("^(a+)+$", {"g"}, 7, FALSE, "ok", "vuln", << >>, {"+"})
UnicodeICand  == Cand("^(\\p{L}+)+$", {"u", "i"}, 12, FALSE, "ok", "vuln", << >>,
                      {"+"})
BadSyntaxCand == Cand("(\\d+\\/", {}, 7, FALSE, "throws", "none",
                      << "Invalid", "regular", "expression", ":",
                         "Unterminated", "group" >>, {"+"})
InternalCand  == Cand("(\\w+)\\1+", {}, 9, FALSE, "ok", "throws",
                      << "Internal", "error", ":", "unsupported",
                         "reference" >>, {"+"})
OtherErrCand  == Cand("((a*)*)*b", {}, 9, FALSE, "ok", "throws",
                      << "Maximum", "call", "stack", "size", "exceeded" >>,
                      {"*"})
LongCand      == Cand("^[0-9a-f]{301}$", {}, 301, FALSE, "ok", "safe", << >>, {})

Candidates == { SafeCand, VulnCand, UnicodeICand, BadSyntaxCand,
                InternalCand, OtherErrCand, LongCand }

\* a text is the sequence of its words; key occurs in text
IsInfix(key, text) ==
  \E k \in 0..(Len(text) - Len(key)) :
    \A i \in 1..Len(key) : text[k + i] = key[i]

\* String.prototype.toLowerCase on one word
LowerWord(w) ==
  CASE w = "Internal" -> "internal"
    [] w = "Invalid" -> "invalid"
    [] w = "Unterminated" -> "unterminated"
    [] w = "Maximum" -> "maximum"
    [] w = "caseInsensitive" -> "caseinsensitive"
    [] OTHER -> w

toLowerCase(text) == [ i \in 1..Len(text) |-> LowerWord(text[i]) ]

\* error.message.includes(key), case-sensitive
Includes(message, key) == IsInfix(key, message)

\* errorMsg.toLowerCase().includes(key.toLowerCase())
IncludesIgnoreCase(message, key) ==
  IsInfix(toLowerCase(key), toLowerCase(message))

\* silentErrors of analyzeProject (first revision)
silentErrors == { << "Internal", "error" >>, << "caseInsensitive" >>,
                  << "unicode" >>, << "expected", "codepoint" >>,
                  << "Invalid", "regular", "expression" >>,
                  << "memory" >>, << "heap" >> }

----------------------------------------------------------------------------
(* What one iteration of each analysis loop does with a candidate.         *)
(*   "skip"       left by return / continue before any analysis            *)
(*   "vulnerable" pushed to the vulnerable list                            *)
(*   "safe"       pushed to the safe list                                  *)
(*   "error"      pushed to errorPatterns                                  *)
(*   "logged"     caught, an ERROR line written, nothing recorded          *)
(*   "silent"     caught, nothing written, nothing recorded                *)

\* the try body from new RegExp on: both calls return, or one throws
Throws(p) == p.compile = "throws" \/ p.verdict = "throws"

\* variant: a candidate whose analysis throws is kept as safe
QuickVerdictErrorIsSafe(p) ==
  IF "u" \in p.flags /\ "i" \in p.flags THEN "skip"
  ELSE IF Throws(p) THEN "safe"
       ELSE IF p.verdict # "safe" THEN "vulnerable" ELSE "safe"

\* analyzePatterns, quick-analysis.js
QuickVerdict(p) ==
  IF "u" \in p.flags /\ "i" \in p.flags THEN "skip"
  ELSE IF Throws(p)
       THEN IF ~Includes(p.message, << "Internal", "error" >>)
               /\ ~Includes(p.message, << "caseInsensitive" >>)
            THEN "logged" ELSE "silent"
       ELSE IF p.verdict # "safe" THEN "vulnerable" ELSE "safe"

\* analyzeProject, first revision (with the skips and the silent errors)
V1Verdict(p) ==
  IF "u" \in p.flags /\ "i" \in p.flags THEN "skip"
  ELSE IF p.nul \/ p.length > MaxPatternLength THEN "skip"
  ELSE IF Throws(p)
       THEN IF \E s \in silentErrors : IncludesIgnoreCase(p.message, s)
            THEN "silent" ELSE "error"
       ELSE IF p.verdict = "safe" THEN "safe" ELSE "vulnerable"

\* analyzeProject, second revision
V2Verdict(p) ==
  IF Throws(p) THEN "error"
  ELSE IF p.verdict = "safe" THEN "safe" ELSE "vulnerable"

\* variant: an exception thrown in one iteration ends the whole loop
NextIterationAbortsOnError(i, v) ==
  IF v \in { "logged", "silent", "error" } THEN MaxAnalyzed + 1 ELSE i + 1

\* the try/catch is inside the loop body: whatever the iteration did with
\* its candidate (verdict v), the loop goes on with the next one
NextIteration(i, v) == i + 1

----------------------------------------------------------------------------
(* Initial states: the source files and the candidates extracted from them *)

SeqsUpTo(S, n) == UNION { [1..k -> S] : k \in 0..n }

\* a target file that exists, with the candidates extracted from it, or a
\* target file that is missing (fs.existsSync false)
SourceFile(t, ps, exists) ==
  [ file |-> t.file, project |-> t.project, exists |-> exists,
    patterns |-> [ i \in 1..Len(ps) |-> [ file |-> t.file ] @@ ps[i] ] ]

NoResults == [ p \in {} |-> 0 ]

InitAnalysis ==
  /\ fileIdx = 1
  /\ patterns = << >>
  /\ idx = 1
  /\ vulnerable = << >>
  /\ safe = << >>
  /\ errorPatterns = << >>
  /\ logged = 0
  /\ resultKeys = << >>
  /\ allResults = NoResults
  /\ projectResults = NoResults
  /\ testCases = << >>

\* the results object evaluateTools starts with (lines 65-68)
NoEvaluation ==
  [ tool \in { "safe-regex", "redos-detector" } |->
    [ correct |-> 0, total |-> 0, details |-> << >> ] ]

InitEval ==
  /\ evalIdx = 1
  /\ evalResults = NoEvaluation
  /\ bestTool = "undefined"

InitBench ==
  /\ projIdx = 1
  /\ todo = << >>
  /\ vIdx = 1
  /\ calls = << >>
  /\ testInputs = << >>
  /\ engine = << >>
  /\ inIdx = 1
  /\ results = << >>
  /\ timers = 0
  /\ sinceArm = 0
  /\ timedOut = FALSE
  /\ benchKeys = << >>
  /\ allBenchmarks = NoResults
  /\ status = NoResults

\* the characters of the substrings generateReDoSInputs and
\* generateTestInputs look for
Chars(key) ==
  CASE key = "5[1-5]" -> << "5", "[", "1", "-", "5", "]" >>
    [] key = "222" -> << "2", "2", "2" >>
    [] key = "a-z" -> << "a", "-", "z" >>
    [] key = "{2,}" -> << "{", "2", ",", "}" >>
    [] key = "hsla?" -> << "h", "s", "l", "a", "?" >>
    [] key = "Mon|Tue|Wed" ->
         << "M", "o", "n", "|", "T", "u", "e", "|", "W", "e", "d" >>
    [] key = "\\[" -> << "\\", "[" >>
    [] key = "MM?M?M?" -> << "M", "M", "?", "M", "?", "M", "?" >>
    [] key = "\\s\\s*" -> << "\\", "s", "\\", "s", "*" >>
    [] key = "+" -> << "+" >>
    [] key = "*" -> << "*" >>
    [] key = "|" -> << "|" >>
    [] key = "@" -> << "@" >>
    [] key = "\\." -> << "\\", "." >>
    [] key = "http" -> << "h", "t", "t", "p" >>
    [] key = "://" -> << ":", "/", "/" >>

Keys == { "5[1-5]", "222", "a-z", "{2,}", "hsla?", "Mon|Tue|Wed", "\\[",
          "MM?M?M?", "\\s\\s*", "+", "*", "|", "@", "\\.", "http", "://" }

\* pattern.includes(key) for every key, text being the pattern's characters
Features(text) == { key \in Keys : IsInfix(Chars(key), text) }

\* a vulnerable entry of quick-analysis.json, the pattern given by its text
SavedEntry(pattern, text) ==
  [ score |-> "score", infinite |-> TRUE, file |-> "isCreditCard.js" ]
    @@ Cand(pattern, {}, Len(text), FALSE, "ok", "vuln", << >>, Features(text))

\* vulnerable entries of a quick-analysis.json given to the benchmark: one
\* per input category of generateReDoSInputs, two of no category and one of
\* two categories
SavedCreditCard ==
  SavedEntry("^5[1-5]\\d+$",
    << "^", "5", "[", "1", "-", "5", "]", "\\", "d", "+", "$" >>)
SavedFqdn ==
  SavedEntry("^[a-z]{2,}$",
    << "^", "[", "a", "-", "z", "]", "{", "2", ",", "}", "$" >>)
SavedHsl ==
  SavedEntry("^hsla?\\((\\d+)+",
    << "^", "h", "s", "l", "a", "?", "\\", "(", "(", "\\", "d", "+", ")", "+" >>)
SavedDate ==
  SavedEntry("(Mon|Tue|Wed),?\\s",
    << "(", "M", "o", "n", "|", "T", "u", "e", "|", "W", "e", "d", ")",
       ",", "?", "\\", "s" >>)
SavedFormat ==
  SavedEntry("(\\[[^\\[]*\\])|MM?M?M?",
    << "(", "\\", "[", "[", "^", "\\", "[", "]", "*", "\\", "]", ")", "|",
       "M", "M", "?", "M", "?", "M", "?" >>)
SavedWhitespace ==
  SavedEntry("\\s\\s*$", << "\\", "s", "\\", "s", "*", "$" >>)
SavedBrackets ==
  SavedEntry("\\([^()]*\\)|[\\n\\t]",
    << "\\", "(", "[", "^", "(", ")", "]", "*", "\\", ")", "|", "[",
       "\\", "n", "\\", "t", "]" >>)
SavedTwoCategories ==
  SavedEntry("^[a-z]{2,}\\s\\s*$",
    << "^", "[", "a", "-", "z", "]", "{", "2", ",", "}", "\\", "s", "\\", "s",
       "*", "$" >>)
\* a pattern of the known-vulnerable collection (number_validation)
SavedDecimal ==
  SavedEntry("^(\\d+\\.)*\\d+$",
    << "^", "(", "\\", "d", "+", "\\", ".", ")", "*", "\\", "d", "+", "$" >>)

SavedPatterns ==
  { SavedCreditCard, SavedFqdn, SavedHsl, SavedDate, SavedFormat,
    SavedWhitespace, SavedBrackets, SavedTwoCategories, SavedDecimal }

\* the vulnerable lists a quick-analysis.json given to the benchmark may
\* hold: one pattern, four patterns of one project, or one pattern found in
\* two files of one project
SavedLists ==
  { << v >> : v \in SavedPatterns }
    \cup { << SavedCreditCard, SavedFqdn, SavedHsl, SavedWhitespace >>,
           << SavedWhitespace,
              [ SavedWhitespace EXCEPT !.file = "isEmail.js" ] >> }

\* performance-benchmark.js started on a quick-analysis.json that is already
\* there (line 11)
InitBenchmark ==
  /\ routine = "benchmark"
  /\ pc = "bench"
  /\ files = << >>
  /\ \E vs \in SavedLists :
       analysisResults =
         [ keys |-> << "validator.js" >>,
           results |-> ("validator.js" :> [ vulnerable |-> vs,
                                           safe |-> << >> ]) ]
  /\ InitAnalysis
  /\ InitBench
  /\ tools = NoResults
  /\ InitEval

InitPipeline ==
  /\ routine \in { "quick", "extractV1", "extractV2" }
  /\ pc = "main"
  /\ analysisResults = [ keys |-> << >>, results |-> NoResults ]
  /\ \E ps1 \in SeqsUpTo(Candidates, MaxPatterns) :
       \E ps2 \in SeqsUpTo(Candidates,
                            Min(MaxSecondFile, MaxPatterns - Len(ps1))) :
         \E e1 \in IF ps1 = << >> THEN BOOLEAN ELSE { TRUE } :
           \E t2 \in IF ps2 = << >> THEN { TargetFiles[3] }
                      ELSE { TargetFiles[2], TargetFiles[3] } :
             /\ routine # "quick" => ps2 = << >>
             /\ files = IF routine = "quick"
                        THEN << SourceFile(TargetFiles[1], ps1, e1),
                                SourceFile(t2, ps2, TRUE) >>
                        ELSE << SourceFile(TargetFiles[1], ps1, TRUE) >>
  /\ InitAnalysis
  /\ InitBench
  /\ tools = NoResults
  /\ InitEval

----------------------------------------------------------------------------
(* quick-analysis.js *)

EmptyLists == [ vulnerable |-> << >>, safe |-> << >> ]

\* main, targetFiles.forEach: a file that is missing or yields no pattern
QuickSkipFile ==
  /\ routine = "quick" /\ pc = "main"
  /\ fileIdx <= Len(files)
  /\ ~files[fileIdx].exists \/ Len(files[fileIdx].patterns) = 0
  /\ fileIdx' = fileIdx + 1
  /\ UNCHANGED << routine, pc, files, patterns, idx, vulnerable, safe,
                  errorPatterns, logged, resultKeys, allResults,
                  analysisResults, projectResults >>
  /\ UNCHANGED testCases
  /\ UNCHANGED benchVars
  /\ UNCHANGED evalVars

\* main, targetFiles.forEach: a file with patterns; analyzePatterns is entered
QuickEnterFile ==
  /\ routine = "quick" /\ pc = "main"
  /\ fileIdx <= Len(files)
  /\ files[fileIdx].exists /\ Len(files[fileIdx].patterns) > 0
  /\ LET project == files[fileIdx].project IN
       IF project \in DOMAIN allResults
       THEN UNCHANGED << resultKeys, allResults >>
       ELSE /\ resultKeys' = Append(resultKeys, project)
            /\ allResults' = (project :> EmptyLists) @@ allResults
  /\ patterns' = files[fileIdx].patterns
  /\ idx' = 1
  /\ vulnerable' = << >>
  /\ safe' = << >>
  /\ pc' = "analyzePatterns"
  /\ UNCHANGED << routine, files, fileIdx, errorPatterns, logged,
                  analysisResults, projectResults >>
  /\ UNCHANGED testCases
  /\ UNCHANGED benchVars
  /\ UNCHANGED evalVars

\* the object pushed to vulnerable: { ...p, score, infinite }
QuickVulnerableEntry(p) ==
  [ score |-> "score", infinite |-> TRUE ] @@ p

\* analyzePatterns, one iteration of patterns.forEach
QuickAnalyzeStep ==
  /\ routine = "quick" /\ pc = "analyzePatterns"
  /\ idx <= Len(patterns)
  /\ LET p == patterns[idx]
         v == QuickVerdict(p) IN
       /\ vulnerable' = IF v = "vulnerable"
                        THEN Append(vulnerable, QuickVulnerableEntry(p))
                        ELSE vulnerable
       /\ safe' = IF v = "safe" THEN Append(safe, p) ELSE safe
       /\ logged' = IF v = "logged" THEN logged + 1 ELSE logged
  /\ idx' = NextIteration(idx, QuickVerdict(patterns[idx]))
  /\ UNCHANGED << routine, pc, files, fileIdx, patterns, errorPatterns,
                  resultKeys, allResults, analysisResults,
                  projectResults >>
  /\ UNCHANGED testCases
  /\ UNCHANGED benchVars
  /\ UNCHANGED evalVars

\* analyzePatterns returns; main appends the lists to the project's lists
QuickReturn ==
  /\ routine = "quick" /\ pc = "analyzePatterns"
  /\ idx > Len(patterns)
  /\ LET project == files[fileIdx].project IN
       allResults' = [ allResults EXCEPT
         ![project] = [ vulnerable |-> @.vulnerable \o vulnerable,
                        safe |-> @.safe \o safe ] ]
  /\ fileIdx' = fileIdx + 1
  /\ pc' = "main"
  /\ UNCHANGED << routine, files, patterns, idx, vulnerable, safe,
                  errorPatterns, logged, resultKeys, analysisResults,
                  projectResults >>
  /\ UNCHANGED testCases
  /\ UNCHANGED benchVars
  /\ UNCHANGED evalVars

\* generateTestInputs; features are the substrings the pattern includes
generateTestInputs(features) ==
     (IF "+" \in features /\ ("*" \in features \/ "+" \in features)
      THEN << [ category |-> "nested", length |-> 20 + 1 ] >> ELSE << >>)
  \o (IF "|" \in features
      THEN << [ category |-> "alternation", length |-> 10 + 10 + 1 ] >>
      ELSE << >>)
  \o (IF "@" \in features \/ "\\." \in features
      THEN << [ category |-> "email", length |-> 50 + 1 + 50 + 4 ] >>
      ELSE << >>)
  \o (IF "http" \in features \/ "://" \in features
      THEN << [ category |-> "url", length |-> 7 + 100 + 4 ] >> ELSE << >>)
  \o << [ category |-> "default", length |-> 100 + 1 ] >>

RECURSIVE TestCases(_)
\* main, lines 128-139: one test case per vulnerable pattern, project by
\* project
TestCases(keys) ==
  IF keys = << >> THEN << >>
  ELSE LET vs == allResults[Head(keys)].vulnerable IN
         [ i \in 1..Len(vs) |->
           [ project |-> Head(keys), pattern |-> vs[i].pattern,
             file |-> vs[i].file,
             testInputs |-> generateTestInputs(vs[i].features) ] ]
           \o TestCases(Tail(keys))

\* main writes analysis/results/quick-analysis.json, builds the test cases
\* and the process ends; the benchmark process starts with nothing but the
\* file
QuickSave ==
  /\ routine = "quick" /\ pc = "main"
  /\ fileIdx > Len(files)
  /\ analysisResults' = [ keys |-> resultKeys, results |-> allResults ]
  /\ testCases' = TestCases(resultKeys)
  /\ pc' = "saved"
  /\ UNCHANGED << routine, files, fileIdx, patterns, idx, vulnerable, safe,
                  errorPatterns, logged, resultKeys, allResults,
                  projectResults >>
  /\ UNCHANGED benchVars
  /\ UNCHANGED evalVars

----------------------------------------------------------------------------
(* evaluate-tools.js, analyzeProject *)

RECURSIVE Concat(_)
\* allPatterns.push(...patterns) over the files, in file order
Concat(fs) ==
  IF fs = << >> THEN << >> ELSE Head(fs).patterns \o Concat(Tail(fs))

\* patternInfo.analysis = analysis: the candidate object itself is written
SetAnalysis(ps, i, v) ==
  IF v \in { "safe", "vulnerable" }
  THEN [ ps EXCEPT ![i].analysis = ps[i].verdict ]
  ELSE ps

\* the results object built at the end of analyzeProject
ResultsObject(total) ==
  [ summary |-> [ totalPatterns |-> total,
                  safePatterns |-> Len(safe),
                  vulnerablePatterns |-> Len(vulnerable),
                  errorPatterns |-> Len(errorPatterns) ],
    vulnerablePatterns |-> vulnerable,
    safePatterns |-> SubSeq(safe, 1, Min(10, Len(safe))),
    errorPatterns |-> errorPatterns ]

\* first revision: the files are walked and the candidates collected
V1Collect ==
  /\ routine = "extractV1" /\ pc = "main"
  /\ patterns' = Concat(files)
  /\ idx' = 1
  /\ pc' = "analyzeProject"
  /\ UNCHANGED << routine, files, fileIdx, vulnerable, safe, errorPatterns,
                  logged, resultKeys, allResults, analysisResults,
                  projectResults >>
  /\ UNCHANGED testCases
  /\ UNCHANGED benchVars
  /\ UNCHANGED evalVars

\* first revision: allPatterns.slice(0, maxPatterns)
patternsToAnalyze == SubSeq(patterns, 1, Min(MaxAnalyzed, Len(patterns)))

\* first revision: one iteration of for (const patternInfo of patternsToAnalyze)
V1AnalyzeStep ==
  /\ routine = "extractV1" /\ pc = "analyzeProject"
  /\ idx <= Len(patternsToAnalyze)
  /\ LET p == patternsToAnalyze[idx]
         v == V1Verdict(p)
         q == SetAnalysis(patterns, idx, v)[idx] IN
       /\ patterns' = SetAnalysis(patterns, idx, v)
       /\ safe' = IF v = "safe" THEN Append(safe, q) ELSE safe
       /\ vulnerable' = IF v = "vulnerable" THEN Append(vulnerable, q)
                        ELSE vulnerable
       /\ errorPatterns' = IF v = "error"
                           THEN Append(errorPatterns, [ error |-> p.message ] @@ p)
                           ELSE errorPatterns
       /\ logged' = IF v = "error" THEN logged + 1 ELSE logged
  /\ idx' = NextIteration(idx, V1Verdict(patternsToAnalyze[idx]))
  /\ UNCHANGED << routine, pc, files, fileIdx, resultKeys, allResults,
                  analysisResults, projectResults >>
  /\ UNCHANGED testCases
  /\ UNCHANGED benchVars
  /\ UNCHANGED evalVars

\* first revision: the loop is over, the results object is saved and returned
V1Finish ==
  /\ routine = "extractV1" /\ pc = "analyzeProject"
  /\ idx > Len(patternsToAnalyze)
  /\ projectResults' = ResultsObject(Len(patterns))
  /\ pc' = "returned"
  /\ UNCHANGED << routine, files, fileIdx, patterns, idx, vulnerable, safe,
                  errorPatterns, logged, resultKeys, allResults,
                  analysisResults >>
  /\ UNCHANGED testCases
  /\ UNCHANGED benchVars
  /\ UNCHANGED evalVars

\* second revision: the files are walked and the candidates collected
V2Collect ==
  /\ routine = "extractV2" /\ pc = "main"
  /\ patterns' = Concat(files)
  /\ idx' = 1
  /\ pc' = "analyzeProject"
  /\ UNCHANGED << routine, files, fileIdx, vulnerable, safe, errorPatterns,
                  logged, resultKeys, allResults, analysisResults,
                  projectResults >>
  /\ UNCHANGED testCases
  /\ UNCHANGED benchVars
  /\ UNCHANGED evalVars

\* second revision: one iteration of for (const patternInfo of allPatterns)
V2AnalyzeStep ==
  /\ routine = "extractV2" /\ pc = "analyzeProject"
  /\ idx <= Len(patterns)
  /\ LET p == patterns[idx]
         v == V2Verdict(p)
         q == SetAnalysis(patterns, idx, v)[idx] IN
       /\ patterns' = SetAnalysis(patterns, idx, v)
       /\ safe' = IF v = "safe" THEN Append(safe, q) ELSE safe
       /\ vulnerable' = IF v = "vulnerable" THEN Append(vulnerable, q)
                        ELSE vulnerable
       /\ errorPatterns' = IF v = "error"
                           THEN Append(errorPatterns, [ error |-> p.message ] @@ p)
                           ELSE errorPatterns
  /\ idx' = NextIteration(idx, V2Verdict(patterns[idx]))
  /\ UNCHANGED << routine, pc, files, fileIdx, logged, resultKeys,
                  allResults, analysisResults, projectResults >>
  /\ UNCHANGED testCases
  /\ UNCHANGED benchVars
  /\ UNCHANGED evalVars

\* second revision: the loop is over, the results object is saved and returned
V2Finish ==
  /\ routine = "extractV2" /\ pc = "analyzeProject"
  /\ idx > Len(patterns)
  /\ projectResults' = ResultsObject(Len(patterns))
  /\ pc' = "returned"
  /\ UNCHANGED << routine, files, fileIdx, patterns, idx, vulnerable, safe,
                  errorPatterns, logged, resultKeys, allResults,
                  analysisResults >>
  /\ UNCHANGED testCases
  /\ UNCHANGED benchVars
  /\ UNCHANGED evalVars

----------------------------------------------------------------------------
(* Extraction: quickExtract of quick-analysis.js and the two revisions of  *)
(* extractRegexFromFile of evaluate-tools.js, on the characters of a text. *)

MinLengthExclusive == 5     \* pattern.length > 5
MaxLengthExclusive == 500   \* pattern.length < 500

LineTerminators == { "\n", "\r" }
Whitespace == { " ", "\t", "\n", "\r" }
Quotes == { "'", "\"" }
FlagChars == { "g", "i", "m", "s", "u", "v", "y" }

\* the character at position i, the empty string past the end of the text
At(text, i) == IF i \in 1..Len(text) THEN text[i] ELSE ""

Least(S) == CHOOSE x \in S : \A y \in S : x <= y

\* word is in text at position i
StartsWith(text, i, word) ==
  /\ i + Len(word) - 1 <= Len(text)
  /\ \A k \in 1..Len(word) : text[i + k - 1] = word[k]

\* \s* from position i: the first position that is not white space
SkipWs(text, i) ==
  CHOOSE j \in i..(Len(text) + 1) :
    /\ At(text, j) \notin Whitespace
    /\ \A m \in i..(j - 1) : text[m] \in Whitespace

\* [gimsuvy]* from position i: the first position that is not a flag
SkipFlags(text, i) ==
  CHOOSE j \in i..(Len(text) + 1) :
    /\ At(text, j) \notin FlagChars
    /\ \A m \in i..(j - 1) : text[m] \in FlagChars

\* in a body that starts at position lo and is read unit by unit (one
\* character, or a backslash and the character after it), position j is
\* the character after a backslash
Escaped(text, lo, j) ==
  LET k == CHOOSE k \in (lo - 1)..(j - 1) :
             /\ k = lo - 1 \/ text[k] # "\\"
             /\ \A m \in (k + 1)..(j - 1) : text[m] = "\\"
  IN (j - 1 - k) % 2 = 1

\* regexPatterns[0] tried at position i: the position of the closing slash,
\* 0 when there is no match.  The body is ([^\/\n\r\\]|\\[^*]|\\.)*: it ends
\* at the first slash that is not escaped and holds no bare line terminator
LiteralEnd(text, i) ==
  LET Stop(j) == /\ text[j] \in { "/" } \cup LineTerminators
                 /\ ~Escaped(text, i + 1, j)
  IN IF At(text, i) # "/" \/ At(text, i + 1) \in { "", "*", "/" } THEN 0
     ELSE IF ~\E j \in (i + 1)..Len(text) : Stop(j) THEN 0
     ELSE LET first == CHOOSE j \in (i + 1)..Len(text) :
                         Stop(j) /\ \A m \in (i + 1)..(j - 1) : ~Stop(m)
          IN IF text[first] = "/" THEN first ELSE 0

\* variant: match without the g flag, which returns the first match only
LiteralMatchesFirstOnly(text, from) ==
  LET starts == { i \in from..Len(text) :
                    text[i] = "/" /\ LiteralEnd(text, i) # 0 }
  IN IF starts = {} THEN << >>
     ELSE LET i == Least(starts)
              e == SkipFlags(text, LiteralEnd(text, i) + 1) - 1
          IN << SubSeq(text, i, e) >>

RECURSIVE LiteralMatches(_, _)
\* content.match(regexPatterns[0]): the matches from position from on, left
\* to right, each search starting after the end of the match before
LiteralMatches(text, from) ==
  LET starts == { i \in from..Len(text) :
                    text[i] = "/" /\ LiteralEnd(text, i) # 0 }
  IN IF starts = {} THEN << >>
     ELSE LET i == Least(starts)
              e == SkipFlags(text, LiteralEnd(text, i) + 1) - 1
          IN << SubSeq(text, i, e) >> \o LiteralMatches(text, e + 1)

\* match.match(/^\/(.*)\/([gimsuvy]*)$/) on one match of regexPatterns[0]:
\* the greedy (.*) runs to the last slash; the dot matches no line terminator
PatternMatch(m) ==
  LET k == CHOOSE k \in 1..Len(m) :
             m[k] = "/" /\ \A j \in (k + 1)..Len(m) : m[j] # "/"
      body == SubSeq(m, 2, k - 1)
  IN [ ok |-> \A j \in 1..Len(body) : body[j] \notin LineTerminators,
       pattern |-> body,
       flags |-> SubSeq(m, k + 1, Len(m)),
       full |-> m ]

\* ['"]((?:[^'"\\\n\r]|\\.)*)['"] with the opening quote at position c: the
\* position of the closing quote, 0 when there is no match
StringEnd(text, c) ==
  LET closing == { j \in (c + 1)..Len(text) :
                     text[j] \in Quotes /\ ~Escaped(text, c + 1, j) }
  IN IF closing = {} THEN 0
     ELSE IF \E j \in (c + 1)..Least(closing) : text[j] \in LineTerminators
          THEN 0 ELSE Least(closing)

\* \s*\) from position i: the position of the parenthesis, 0 when no match
ClosingParen(text, i) ==
  IF At(text, SkipWs(text, i)) = ")" THEN SkipWs(text, i) ELSE 0

\* (?:\s*,\s*['"][gimsuvy]*['"])?\s*\) from position i: the position of the
\* closing parenthesis, 0 when there is no match
FlagsArgumentEnd(text, i) ==
  LET comma == SkipWs(text, i)
      open == SkipWs(text, comma + 1)
      close == SkipFlags(text, open + 1)
      withFlags == IF /\ At(text, comma) = ","
                      /\ At(text, open) \in Quotes
                      /\ At(text, close) \in Quotes
                   THEN ClosingParen(text, close + 1) ELSE 0
  IN IF withFlags # 0 THEN withFlags ELSE ClosingParen(text, i)

\* regexPatterns[1] tried at position i: the position of the closing
\* parenthesis, 0 when there is no match
ConstructorEnd(text, i) ==
  LET new == << "n", "e", "w" >>
      RegExp == << "R", "e", "g", "E", "x", "p" >>
      name == SkipWs(text, i + Len(new))
      paren == SkipWs(text, name + Len(RegExp))
      quote == SkipWs(text, paren + 1)
  IN IF /\ StartsWith(text, i, new)
        /\ name > i + Len(new)
        /\ StartsWith(text, name, RegExp)
        /\ At(text, paren) = "("
        /\ At(text, quote) \in Quotes
        /\ StringEnd(text, quote) # 0
     THEN FlagsArgumentEnd(text, StringEnd(text, quote) + 1)
     ELSE 0

RECURSIVE ConstructorMatches(_, _)
\* content.match(regexPatterns[1])
ConstructorMatches(text, from) ==
  LET starts == { i \in from..Len(text) :
                    text[i] = "n" /\ ConstructorEnd(text, i) # 0 }
  IN IF starts = {} THEN << >>
     ELSE LET i == Least(starts) IN
            << SubSeq(text, i, ConstructorEnd(text, i)) >>
              \o ConstructorMatches(text, ConstructorEnd(text, i) + 1)

\* match.match(/new\s+RegExp\s*\(\s*['"]([^'"]*)['"]/) on one match of
\* regexPatterns[1]: the characters between the first quote and the next one
ConstructorPattern(m) ==
  LET quotes == { j \in 1..Len(m) : m[j] \in Quotes }
      open == Least(quotes)
      close == Least(quotes \ { open })
  IN [ ok |-> TRUE,
       pattern |-> SubSeq(m, open + 1, close - 1),
       flags |-> << >>,
       full |-> m ]

\* the length and line-break filter of the first extractRegexFromFile
KeepV1(pattern) ==
  /\ Len(pattern) > MinLengthExclusive
  /\ Len(pattern) < MaxLengthExclusive
  /\ ~IsInfix(<< "\\", "n" >>, pattern)
  /\ ~IsInfix(<< "\\", "r" >>, pattern)

\* the length filter of quickExtract
KeepQuick(pattern) == Len(pattern) > MinLengthExclusive

\* the second extractRegexFromFile keeps every match
KeepV2(pattern) == TRUE

\* literalMatches.forEach, lines 208-214: every match is parsed
ParsedLiterals(content) ==
  LET matches == LiteralMatches(content, 1) IN
    [ k \in 1..Len(matches) |-> PatternMatch(matches[k]) ]

\* constructorMatches.forEach, lines 235-239: every match is parsed
ParsedConstructors(content) ==
  LET matches == ConstructorMatches(content, 1) IN
    [ k \in 1..Len(matches) |-> ConstructorPattern(matches[k]) ]

\* quickExtract(filePath)
quickExtract(file, content) ==
  LET kept == SelectSeq(ParsedLiterals(content),
                        LAMBDA p : p.ok /\ KeepQuick(p.pattern))
  IN [ k \in 1..Len(kept) |->
       [ pattern |-> kept[k].pattern, flags |-> kept[k].flags,
         file |-> file ] ]

\* the candidate objects of extractRegexFromFile
LiteralCandidate(p, file) ==
  [ type |-> "literal", pattern |-> p.pattern, flags |-> p.flags,
    full |-> p.full, file |-> file ]

ConstructorCandidate(p, file) ==
  [ type |-> "constructor", pattern |-> p.pattern, flags |-> << >>,
    full |-> p.full, file |-> file ]

\* extractRegexFromFile(filePath), first revision
extractRegexFromFileV1(file, content) ==
  LET literals == SelectSeq(ParsedLiterals(content),
                            LAMBDA p : p.ok /\ KeepV1(p.pattern))
      constructors == SelectSeq(ParsedConstructors(content),
                                LAMBDA p : p.ok /\ KeepV1(p.pattern))
  IN [ k \in 1..Len(literals) |-> LiteralCandidate(literals[k], file) ]
       \o [ k \in 1..Len(constructors) |->
            ConstructorCandidate(constructors[k], file) ]

\* extractRegexFromFile(filePath), second revision
extractRegexFromFileV2(file, content) ==
  LET literals == SelectSeq(ParsedLiterals(content),
                            LAMBDA p : p.ok /\ KeepV2(p.pattern))
      constructors == SelectSeq(ParsedConstructors(content),
                                LAMBDA p : p.ok /\ KeepV2(p.pattern))
  IN [ k \in 1..Len(literals) |-> LiteralCandidate(literals[k], file) ]
       \o [ k \in 1..Len(constructors) |->
            ConstructorCandidate(constructors[k], file) ]

\* c repeated n times
Rep(c, n) == [ i \in 1..n |-> c ]

\* a regex literal in a source text, with the pattern and the flags it has
Literal(body, flags) ==
  [ kind |-> "literal", source |-> << "/" >> \o body \o << "/" >> \o flags,
    pattern |-> body, flags |-> flags ]

NewRegExp == << "n", "e", "w", " ", "R", "e", "g", "E", "x", "p", "(" >>

\* new RegExp('<pattern>') and new RegExp('<pattern>', '<flags>')
Constructor(quote, body) ==
  [ kind |-> "constructor",
    source |-> NewRegExp \o << quote >> \o body \o << quote, ")" >>,
    pattern |-> body, flags |-> << >> ]

ConstructorWithFlags(quote, body, flags) ==
  [ kind |-> "constructor",
    source |-> NewRegExp \o << quote >> \o body \o << quote, ",", " ", quote >>
                 \o flags \o << quote, ")" >>,
    pattern |-> body, flags |-> flags ]

\* new RegExp(<identifier>, '<flags>')
VariableConstructor(name, flags) ==
  [ kind |-> "variable",
    source |-> NewRegExp \o name \o << ",", " ", "'" >> \o flags \o << "'", ")" >>,
    pattern |-> name, flags |-> flags ]

\* a regex literal on a line that has a division before it
AfterDivision(body, flags) ==
  [ kind |-> "embedded",
    source |-> << "n", "/", "2", "+", "/" >> \o body \o << "/" >> \o flags,
    pattern |-> body, flags |-> flags ]

\* an opening slash without closing slash on its line; the line ends after
\* the characters of end
Unterminated(body, end) ==
  [ kind |-> "unterminated", source |-> << "/" >> \o body,
    pattern |-> body, flags |-> << >>, end |-> end ]

\* a line comment and a quoted string, which hold no regex expression
LineComment(words) ==
  [ kind |-> "comment", source |-> << "/", "/" >> \o words,
    pattern |-> << >>, flags |-> << >> ]

QuotedString(quote, chars) ==
  [ kind |-> "string", source |-> << quote >> \o chars \o << quote >>,
    pattern |-> << >>, flags |-> << >> ]

\* the statements the source texts of the model are made of
Snippets ==
  { Literal(<< "^", "a", "+", "b", "$" >>, << >>),
    Literal(<< "^", "a", "+", "b", "+", "$" >>, << "g" >>),
    Literal(<< "^", "(", "a", "+", ")", "+", "$" >>, << "g", "i" >>),
    Literal(<< "^", "a", "+", "\\", "n", "+", "$" >>, << >>),
    Literal(<< "^" >> \o Rep("a", MaxLengthExclusive - 3) \o << "$" >>, << >>),
    Literal(<< "^" >> \o Rep("a", MaxLengthExclusive - 2) \o << "$" >>, << >>),
    Literal(<< "^" >> \o Rep("a", MaxLengthExclusive - 1) \o << "$" >>, << >>),
    ConstructorWithFlags("'", << "^", "(", "b", "+", ")", "+", "$" >>,
                         << "g", "i" >>),
    Constructor("\"", << "(", "c", "|", "c", ")", "+", "$" >>),
    VariableConstructor(<< "s", "o", "m", "e", "V", "a", "r" >>, << "g" >>),
    AfterDivision(<< "^", "(", "a", "+", ")", "+", "$" >>, << "g", "i" >>),
    Unterminated(<< "a", "b", "c" >>, << ";", "\n" >>),
    Unterminated(<< "a", "b", "c", "\\" >>, << "\n" >>),
    LineComment(<< " ", "m", "a", "t", "c", "h", "e", "s", " ", "/", "x", "/",
                   " ", "o", "n", "l", "y" >>),
    QuotedString("'", << "/", "s", "t", "a", "t", "i", "c", "/", "i", "m", "a",
                         "g", "e", "s", "/" >>) }

RECURSIVE Join(_)
\* the source text: one line per statement, an assignment that ends with
\* a semicolon unless the statement says how its line ends
Join(ss) ==
  IF ss = << >> THEN << >>
  ELSE << "x", " ", "=", " " >> \o Head(ss).source
         \o (IF "end" \in DOMAIN Head(ss) THEN Head(ss).end
             ELSE << ";", "\n" >>)
         \o Join(Tail(ss))

\* the routines that apply an extraction function to one source text
Extracting ==
  { "quickExtract", "extractRegexFromFileV1", "extractRegexFromFileV2" }

\* fs.readFileSync(filePath, 'utf8'): the text the extraction is given
InitExtraction ==
  /\ routine \in Extracting
  /\ pc = "main"
  /\ \E ss \in SeqsUpTo(Snippets, MaxSnippets) :
       files = << [ file |-> "isURL.js", project |-> "validator.js",
                    exists |-> TRUE, snippets |-> ss, content |-> Join(ss),
                    patterns |-> << >> ] >>
  /\ analysisResults = [ keys |-> << >>, results |-> NoResults ]
  /\ InitAnalysis
  /\ InitBench
  /\ tools = NoResults
  /\ InitEval

\* quickExtract is called on the file and returns its candidates
QuickExtract ==
  /\ routine = "quickExtract" /\ pc = "main"
  /\ patterns' = quickExtract(files[1].file, files[1].content)
  /\ pc' = "returned"
  /\ UNCHANGED << routine, files, fileIdx, idx, vulnerable, safe,
                  errorPatterns, logged, resultKeys, allResults,
                  analysisResults, projectResults >>
  /\ UNCHANGED testCases
  /\ UNCHANGED benchVars
  /\ UNCHANGED evalVars

\* extractRegexFromFile, first revision, is called on the file
ExtractV1 ==
  /\ routine = "extractRegexFromFileV1" /\ pc = "main"
  /\ patterns' = extractRegexFromFileV1(files[1].file, files[1].content)
  /\ pc' = "returned"
  /\ UNCHANGED << routine, files, fileIdx, idx, vulnerable, safe,
                  errorPatterns, logged, resultKeys, allResults,
                  analysisResults, projectResults >>
  /\ UNCHANGED testCases
  /\ UNCHANGED benchVars
  /\ UNCHANGED evalVars

\* extractRegexFromFile, second revision, is called on the file
ExtractV2 ==
  /\ routine = "extractRegexFromFileV2" /\ pc = "main"
  /\ patterns' = extractRegexFromFileV2(files[1].file, files[1].content)
  /\ pc' = "returned"
  /\ UNCHANGED << routine, files, fileIdx, idx, vulnerable, safe,
                  errorPatterns, logged, resultKeys, allResults,
                  analysisResults, projectResults >>
  /\ UNCHANGED testCases
  /\ UNCHANGED benchVars
  /\ UNCHANGED evalVars

----------------------------------------------------------------------------
(* performance-benchmark.js *)

\* variant: the first two inputs of a category have the same size
TripleRepeatedSize(category, prefix, unit, suffix) ==
  << [ category |-> category, length |-> prefix + 20 * unit + suffix ],
     [ category |-> category, length |-> prefix + 20 * unit + suffix ],
     [ category |-> category, length |-> prefix + 100 * unit + suffix ] >>

\* 'x'.repeat(n) between a prefix and a suffix: the three inputs of a category
Triple(category, prefix, unit, suffix) ==
  << [ category |-> category, length |-> prefix + 20 * unit + suffix ],
     [ category |-> category, length |-> prefix + 50 * unit + suffix ],
     [ category |-> category, length |-> prefix + 100 * unit + suffix ] >>

\* variant: the inputs array is not local to the call, the inputs of a call
\* are appended to those of the call before
generateReDoSInputsShared(features) ==
  LET inputs ==
           testInputs
        \o (IF "5[1-5]" \in features \/ "222" \in features
            THEN Triple("creditcard", 1, 1, 1) ELSE << >>)
        \o (IF "a-z" \in features /\ "{2,}" \in features
            THEN Triple("fqdn", 0, 1, 1) ELSE << >>)
        \o (IF "hsla?" \in features
            THEN Triple("hsl", 4, 2, 1) ELSE << >>)
        \o (IF "Mon|Tue|Wed" \in features
            THEN Triple("date", 5, 1, 4) ELSE << >>)
        \o (IF "\\[" \in features /\ "MM?M?M?" \in features
            THEN Triple("format", 1, 1, 1) ELSE << >>)
        \o (IF "\\s\\s*" \in features
            THEN Triple("whitespace", 0, 1, 1) ELSE << >>)
  IN IF Len(inputs) = 0 THEN Triple("default", 0, 1, 1) ELSE inputs

\* generateReDoSInputs; features are the substrings the pattern includes
generateReDoSInputs(features) ==
  LET inputs ==
           (IF "5[1-5]" \in features \/ "222" \in features
            THEN Triple("creditcard", 1, 1, 1) ELSE << >>)
        \o (IF "a-z" \in features /\ "{2,}" \in features
            THEN Triple("fqdn", 0, 1, 1) ELSE << >>)
        \o (IF "hsla?" \in features
            THEN Triple("hsl", 4, 2, 1) ELSE << >>)
        \o (IF "Mon|Tue|Wed" \in features
            THEN Triple("date", 5, 1, 4) ELSE << >>)
        \o (IF "\\[" \in features /\ "MM?M?M?" \in features
            THEN Triple("format", 1, 1, 1) ELSE << >>)
        \o (IF "\\s\\s*" \in features
            THEN Triple("whitespace", 0, 1, 1) ELSE << >>)
  IN IF Len(inputs) = 0 THEN Triple("default", 0, 1, 1) ELSE inputs

\* one call of regex.test: it returns after ms milliseconds, it throws, or
\* it does not return (catastrophic backtracking on the adversarial input)
Returns(ms, match) == [ kind |-> "returns", ms |-> ms, match |-> match ]
ThrowsError == [ kind |-> "throws", ms |-> 0, match |-> FALSE ]
NeverReturns == [ kind |-> "never", ms |-> 0, match |-> FALSE ]

\* the behaviours of the engine on the n inputs of one pattern
EngineBehaviours(n) ==
  { [ i \in 1..n |-> IF i = n THEN Returns(100, FALSE) ELSE Returns(50, TRUE) ],
    [ i \in 1..n |-> IF i = n THEN Returns(1000, FALSE)
                     ELSE IF i = n - 1 THEN Returns(101, FALSE)
                     ELSE Returns(50, FALSE) ],
    [ i \in 1..n |-> IF i = n THEN Returns(1001, FALSE) ELSE Returns(500, FALSE) ],
    [ i \in 1..n |-> IF i = 1 THEN Returns(1500, FALSE) ELSE Returns(50, TRUE) ],
    [ i \in 1..n |-> IF i = n - 1 THEN Returns(6000, FALSE) ELSE Returns(50, FALSE) ],
    [ i \in 1..n |-> IF i = n - 1 THEN ThrowsError ELSE Returns(50, FALSE) ],
    [ i \in 1..n |-> IF i = n - 1 THEN NeverReturns ELSE Returns(50, FALSE) ] }

\* the routines in which performance-benchmark.js runs
Benchmarking == routine \in { "quick", "benchmark" }

\* the quick-analysis process has ended; the benchmark process loads
\* analysis/results/quick-analysis.json (line 11)
BenchLoad ==
  /\ routine = "quick" /\ pc = "saved"
  /\ pc' = "bench"
  /\ projIdx' = 1
  /\ files' = << >> /\ fileIdx' = 1 /\ patterns' = << >> /\ idx' = 1
  /\ vulnerable' = << >> /\ safe' = << >> /\ logged' = 0
  /\ resultKeys' = << >> /\ allResults' = NoResults
  /\ UNCHANGED << routine, errorPatterns, analysisResults, projectResults,
                  testCases,
                  todo, vIdx, calls, testInputs, engine, inIdx, results,
                  timers, sinceArm, timedOut, benchKeys, allBenchmarks,
                  status >>
  /\ UNCHANGED evalVars

\* variant: the safe list is benchmarked as well
vulnerableAndSafePatterns(project) ==
  analysisResults.results[project].vulnerable
    \o analysisResults.results[project].safe

\* analysisResults.results[project].vulnerable
vulnerablePatterns(project) == analysisResults.results[project].vulnerable

\* vulnerablePatterns.slice(0, 3)
TopPatterns(vs) == SubSeq(vs, 1, Min(TopN, Len(vs)))

\* main: a project without vulnerable pattern
BenchSkipProject ==
  /\ Benchmarking /\ pc = "bench"
  /\ projIdx <= Len(analysisResults.keys)
  /\ Len(vulnerablePatterns(analysisResults.keys[projIdx])) = 0
  /\ projIdx' = projIdx + 1
  /\ UNCHANGED << routine, pc, analysisResults, todo, vIdx, calls,
                  testInputs, engine, inIdx, results, timers, sinceArm,
                  timedOut, benchKeys, allBenchmarks, status >>
  /\ UNCHANGED analysisVars
  /\ UNCHANGED evalVars

\* main: a project with vulnerable patterns
BenchEnterProject ==
  /\ Benchmarking /\ pc = "bench"
  /\ projIdx <= Len(analysisResults.keys)
  /\ LET project == analysisResults.keys[projIdx] IN
       /\ Len(vulnerablePatterns(project)) > 0
       /\ benchKeys' = Append(benchKeys, project)
       /\ allBenchmarks' = (project :> << >>) @@ allBenchmarks
       /\ todo' = TopPatterns(vulnerablePatterns(project))
  /\ vIdx' = 1
  /\ pc' = "patterns"
  /\ UNCHANGED << routine, analysisResults, projIdx, calls, testInputs,
                  engine, inIdx, results, timers, sinceArm, timedOut, status >>
  /\ UNCHANGED analysisVars
  /\ UNCHANGED evalVars

\* main calls benchmarkPattern; new RegExp(pattern, flags) succeeds
BenchCall ==
  /\ Benchmarking /\ pc = "patterns"
  /\ vIdx <= Len(todo)
  /\ testInputs' = generateReDoSInputs(todo[vIdx].features)
  /\ calls' = Append(calls, [ testInputs |-> testInputs' ] @@ todo[vIdx])
  /\ engine' \in EngineBehaviours(Len(testInputs'))
  /\ results' = << >>
  /\ inIdx' = 1
  /\ pc' = "forEach"
  /\ UNCHANGED << routine, analysisResults, projIdx, todo, vIdx, timers,
                  sinceArm, timedOut, benchKeys, allBenchmarks, status >>
  /\ UNCHANGED analysisVars
  /\ UNCHANGED evalVars

\* main calls benchmarkPattern; new RegExp(pattern, flags) throws at line 16,
\* outside every try: the exception leaves benchmarkPattern, both forEach
\* loops and main, and the process dies
BenchCallThrows ==
  /\ Benchmarking /\ pc = "patterns"
  /\ vIdx <= Len(todo)
  /\ testInputs' = generateReDoSInputs(todo[vIdx].features)
  /\ calls' = Append(calls, [ testInputs |-> testInputs' ] @@ todo[vIdx])
  /\ pc' = "crashed"
  /\ UNCHANGED << routine, analysisResults, projIdx, todo, vIdx, engine,
                  inIdx, results, timers, sinceArm, timedOut, benchKeys,
                  allBenchmarks, status >>
  /\ UNCHANGED analysisVars
  /\ UNCHANGED evalVars

\* benchmarkPattern, lines 20-25: the start of one forEach iteration
StartSample ==
  /\ Benchmarking /\ pc = "forEach"
  /\ inIdx <= Len(testInputs)
  /\ timedOut' = FALSE
  /\ timers' = timers + 1
  /\ sinceArm' = 0
  /\ pc' = "test"
  /\ UNCHANGED << routine, analysisResults, projIdx, todo, vIdx, calls,
                  testInputs, engine, inIdx, results, benchKeys,
                  allBenchmarks, status >>
  /\ UNCHANGED analysisVars
  /\ UNCHANGED evalVars

\* the sample pushed by the branch if (!timedOut)
NormalSample(input, duration, match) ==
  [ inputLength |-> input.length, duration |-> duration,
    result |-> IF match THEN "true" ELSE "false",
    timeout |-> "false", error |-> "undefined" ]

\* the sample pushed by the else branch
TimeoutSample(input) ==
  [ inputLength |-> input.length, duration |-> DEADLINE,
    result |-> "timeout", timeout |-> "true", error |-> "undefined" ]

\* the sample pushed by the catch handler
ErrorSample(input) ==
  [ inputLength |-> input.length, duration |-> 0,
    result |-> "error", timeout |-> "undefined", error |-> "message" ]

\* the timer callback () => { timedOut = true } is a macrotask: it runs only
\* when the timer has been pending for the delay and the call stack is empty
CallbackRuns(stackEmpty, elapsed) ==
  stackEmpty /\ timers > 0 /\ elapsed >= DEADLINE

\* benchmarkPattern, lines 28-50: regex.test returns after ms milliseconds;
\* the stack is not empty between setTimeout and the test of timedOut
TestReturns ==
  /\ Benchmarking /\ pc = "test"
  /\ engine[inIdx].kind = "returns"
  /\ LET ms == engine[inIdx].ms IN
       /\ sinceArm' = ms
       /\ timedOut' = (timedOut \/ CallbackRuns(FALSE, ms))
       /\ results' = Append(results,
                       IF ~timedOut'
                       THEN NormalSample(testInputs[inIdx], ms, engine[inIdx].match)
                       ELSE TimeoutSample(testInputs[inIdx]))
  /\ timers' = timers - 1
  /\ inIdx' = inIdx + 1
  /\ pc' = "forEach"
  /\ UNCHANGED << routine, analysisResults, projIdx, todo, vIdx, calls,
                  testInputs, engine, benchKeys, allBenchmarks, status >>
  /\ UNCHANGED analysisVars
  /\ UNCHANGED evalVars

\* variant: the catch handler records the error and leaves the timer armed
TestThrowsTimerPending ==
  /\ Benchmarking /\ pc = "test"
  /\ engine[inIdx].kind = "throws"
  /\ results' = Append(results, ErrorSample(testInputs[inIdx]))
  /\ inIdx' = inIdx + 1
  /\ pc' = "forEach"
  /\ UNCHANGED << routine, analysisResults, projIdx, todo, vIdx, calls,
                  testInputs, engine, timers, sinceArm, timedOut, benchKeys,
                  allBenchmarks, status >>
  /\ UNCHANGED analysisVars
  /\ UNCHANGED evalVars

\* variant: the catch handler clears the timer and records nothing
TestThrowsWithoutSample ==
  /\ Benchmarking /\ pc = "test"
  /\ engine[inIdx].kind = "throws"
  /\ timers' = timers - 1
  /\ inIdx' = inIdx + 1
  /\ pc' = "forEach"
  /\ UNCHANGED << routine, analysisResults, projIdx, todo, vIdx, calls,
                  testInputs, engine, results, sinceArm, timedOut, benchKeys,
                  allBenchmarks, status >>
  /\ UNCHANGED analysisVars
  /\ UNCHANGED evalVars

\* benchmarkPattern, lines 51-58: regex.test throws
TestThrows ==
  /\ Benchmarking /\ pc = "test"
  /\ engine[inIdx].kind = "throws"
  /\ timers' = timers - 1
  /\ results' = Append(results, ErrorSample(testInputs[inIdx]))
  /\ inIdx' = inIdx + 1
  /\ pc' = "forEach"
  /\ UNCHANGED << routine, analysisResults, projIdx, todo, vIdx, calls,
                  testInputs, engine, sinceArm, timedOut, benchKeys,
                  allBenchmarks, status >>
  /\ UNCHANGED analysisVars
  /\ UNCHANGED evalVars

\* benchmarkPattern returns results; main pushes the benchmark entry
BenchReturn ==
  /\ Benchmarking /\ pc = "forEach"
  /\ inIdx > Len(testInputs)
  /\ LET project == analysisResults.keys[projIdx] IN
       allBenchmarks' = [ allBenchmarks EXCEPT ![project] =
         Append(@, [ pattern |-> todo[vIdx].pattern,
                     file |-> todo[vIdx].file,
                     results |-> results ]) ]
  /\ vIdx' = vIdx + 1
  /\ pc' = "patterns"
  /\ UNCHANGED << routine, analysisResults, projIdx, todo, calls, testInputs,
                  engine, inIdx, results, timers, sinceArm, timedOut,
                  benchKeys, status >>
  /\ UNCHANGED analysisVars
  /\ UNCHANGED evalVars

\* main: the inner forEach of a project is over
BenchProjectDone ==
  /\ Benchmarking /\ pc = "patterns"
  /\ vIdx > Len(todo)
  /\ projIdx' = projIdx + 1
  /\ pc' = "bench"
  /\ UNCHANGED << routine, analysisResults, todo, vIdx, calls, testInputs,
                  engine, inIdx, results, timers, sinceArm, timedOut,
                  benchKeys, allBenchmarks, status >>
  /\ UNCHANGED analysisVars
  /\ UNCHANGED evalVars

----------------------------------------------------------------------------
(* performance-benchmark.js, main: the performance summary *)

\* a JavaScript value used as a condition
Truthy(v) == v = "true"

\* benchmark.results.filter(r => !r.timeout).map(r => r.duration)
UntimedDurations(rs) ==
  LET kept == SelectSeq(rs, LAMBDA r : ~Truthy(r.timeout)) IN
    [ i \in 1..Len(kept) |-> kept[i].duration ]

\* variant: the time of the last sample instead of the largest time
MathMaxLastOnly(values) ==
  IF values = << >> THEN NegInfinity ELSE values[Len(values)]

RECURSIVE MathMax(_)
\* Math.max(...values)
MathMax(values) ==
  IF values = << >> THEN NegInfinity
  ELSE LET rest == MathMax(Tail(values)) IN
         IF Head(values) > rest THEN Head(values) ELSE rest

\* benchmark.results.some(r => r.timeout)
hasTimeout(rs) == \E i \in 1..Len(rs) : Truthy(rs[i].timeout)

\* the status derived from maxTime and hasTimeout
Status(maxTime, anyTimeout) ==
  IF anyTimeout THEN "CRITICAL"
  ELSE IF maxTime > HighMs THEN "HIGH"
  ELSE IF maxTime > MediumMs THEN "MEDIUM"
  ELSE "LOW"

\* the status of one benchmark entry
StatusOf(benchmark) ==
  Status(MathMax(UntimedDurations(benchmark.results)),
         hasTimeout(benchmark.results))

\* main, lines 155-182: the summary of every entry is printed, the benchmark
\* data is written, main returns
Summary ==
  /\ Benchmarking /\ pc = "bench"
  /\ projIdx > Len(analysisResults.keys)
  /\ status' = [ project \in DOMAIN allBenchmarks |->
                 [ i \in 1..Len(allBenchmarks[project]) |->
                   StatusOf(allBenchmarks[project][i]) ] ]
  /\ pc' = "returned"
  /\ UNCHANGED << routine, analysisResults, projIdx, todo, vIdx, calls,
                  testInputs, engine, inIdx, results, timers, sinceArm,
                  timedOut, benchKeys, allBenchmarks >>
  /\ UNCHANGED analysisVars
  /\ UNCHANGED evalVars

\* the program's main has returned: the event loop runs the callbacks of the
\* timers still pending, then the process exits
EventLoop ==
  /\ pc = "returned"
  /\ timedOut' = (timedOut \/ CallbackRuns(TRUE, sinceArm))
  /\ timers' = 0
  /\ pc' = "exited"
  /\ UNCHANGED << routine, analysisResults, projIdx, todo, vIdx, calls,
                  testInputs, engine, inIdx, results, sinceArm, benchKeys,
                  allBenchmarks, status >>
  /\ UNCHANGED analysisVars
  /\ UNCHANGED evalVars

----------------------------------------------------------------------------

(* evaluate-tools.js, evaluateTools *)

\* testCases of evaluate-tools.js, lines 12-58
toolTestCases ==
  << [ pattern |-> "^(a+)+$", expected |-> "VULNERABLE" ],
     [ pattern |-> "^(a|a)*$", expected |-> "VULNERABLE" ],
     [ pattern |-> "(a+)+b", expected |-> "VULNERABLE" ],
     [ pattern |-> "^([a-zA-Z0-9])(([\\.\\-])?([a-zA-Z0-9]+))*([a-zA-Z0-9])@([a-zA-Z0-9])(([\\.\\-])?([a-zA-Z0-9]+))*([a-zA-Z0-9])\\.[a-zA-Z]{2,4}$",
       expected |-> "VULNERABLE" ],
     [ pattern |-> "^[a-zA-Z0-9]+$", expected |-> "SAFE" ],
     [ pattern |-> "\\d{3}-\\d{2}-\\d{4}", expected |-> "SAFE" ],
     [ pattern |-> "^[a-z]+@[a-z]+\\.[a-z]{2,4}$", expected |-> "SAFE" ] >>

\* Object.keys(results)
toolNames == << "safe-regex", "redos-detector" >>

\* what a tool does on the test cases: on each it answers SAFE or
\* VULNERABLE, or it throws
ToolBehaviours ==
  LET n == Len(toolTestCases)
      other(e) == IF e = "SAFE" THEN "VULNERABLE" ELSE "SAFE" IN
  { [ i \in 1..n |-> toolTestCases[i].expected ],
    [ i \in 1..n |-> IF i = 4 THEN other(toolTestCases[i].expected)
                     ELSE toolTestCases[i].expected ],
    [ i \in 1..n |-> IF i = 4 THEN "throws" ELSE toolTestCases[i].expected ],
    [ i \in 1..n |-> "SAFE" ],
    [ i \in 1..n |-> "VULNERABLE" ],
    [ i \in 1..n |-> IF i = 1 THEN "throws"
                     ELSE other(toolTestCases[i].expected) ] }

InitEvaluation ==
  /\ routine = "evaluateTools"
  /\ pc = "main"
  /\ files = << >>
  /\ analysisResults = [ keys |-> << >>, results |-> NoResults ]
  /\ tools \in [ { "safe-regex", "redos-detector" } -> ToolBehaviours ]
  /\ InitAnalysis
  /\ InitBench
  /\ InitEval

\* variant: a test case on which the tool throws is not counted
EvaluatedErrorNotCounted(r, testCase, answer, score) ==
  IF answer = "throws"
  THEN [ r EXCEPT !.details = Append(@,
           [ pattern |-> testCase.pattern, expected |-> testCase.expected,
             actual |-> "ERROR", correct |-> FALSE ]) ]
  ELSE [ correct |-> IF answer = testCase.expected THEN r.correct + 1
                     ELSE r.correct,
         total |-> r.total + 1,
         details |-> Append(r.details,
           score @@ [ pattern |-> testCase.pattern,
                      expected |-> testCase.expected,
                      actual |-> answer,
                      correct |-> (answer = testCase.expected) ]) ]

\* one tool on one test case: the try body (lines 74-88, 101-125) or the
\* catch handler (lines 89-98, 126-135); score holds the fields only the
\* redos-detector entry has
Evaluated(r, testCase, answer, score) ==
  IF answer = "throws"
  THEN [ r EXCEPT !.total = @ + 1,
                  !.details = Append(@,
           [ pattern |-> testCase.pattern, expected |-> testCase.expected,
             actual |-> "ERROR", correct |-> FALSE ]) ]
  ELSE [ correct |-> IF answer = testCase.expected THEN r.correct + 1
                     ELSE r.correct,
         total |-> r.total + 1,
         details |-> Append(r.details,
           score @@ [ pattern |-> testCase.pattern,
                      expected |-> testCase.expected,
                      actual |-> answer,
                      correct |-> (answer = testCase.expected) ]) ]

\* one iteration of testCases.forEach: safe-regex, then redos-detector
EvaluateStep ==
  /\ routine = "evaluateTools" /\ pc = "main"
  /\ evalIdx <= Len(toolTestCases)
  /\ evalResults' =
       [ tool \in DOMAIN evalResults |->
         Evaluated(evalResults[tool], toolTestCases[evalIdx],
                   tools[tool][evalIdx],
                   IF tool = "redos-detector" THEN [ score |-> "score" ]
                   ELSE NoResults) ]
  /\ evalIdx' = evalIdx + 1
  /\ UNCHANGED << routine, pc, analysisResults, tools, bestTool >>
  /\ UNCHANGED analysisVars
  /\ UNCHANGED benchVars

\* results[tool].correct / results[tool].total, or 0 when total is 0, as a
\* fraction
Accuracy(r) ==
  IF r.total > 0 THEN [ num |-> r.correct, den |-> r.total ]
  ELSE [ num |-> 0, den |-> 1 ]

\* variant: currentAccuracy >= bestAccuracy
MoreAccurateOrEqual(current, best) ==
  Accuracy(current).num * Accuracy(best).den
    >= Accuracy(best).num * Accuracy(current).den

\* currentAccuracy > bestAccuracy
MoreAccurate(current, best) ==
  Accuracy(current).num * Accuracy(best).den
    > Accuracy(best).num * Accuracy(current).den

RECURSIVE Reduce(_, _)
\* Object.keys(results).reduce((best, current) => ...) without initial
\* value: best starts as the first key
Reduce(best, keys) ==
  IF keys = << >> THEN best
  ELSE Reduce(IF MoreAccurate(evalResults[Head(keys)], evalResults[best])
              THEN Head(keys) ELSE best,
              Tail(keys))

\* lines 138-155: the summary, the recommendation, return results
EvaluateFinish ==
  /\ routine = "evaluateTools" /\ pc = "main"
  /\ evalIdx > Len(toolTestCases)
  /\ bestTool' = Reduce(Head(toolNames), Tail(toolNames))
  /\ pc' = "returned"
  /\ UNCHANGED << routine, analysisResults, tools, evalIdx, evalResults >>
  /\ UNCHANGED analysisVars
  /\ UNCHANGED benchVars

----------------------------------------------------------------------------

Init == InitPipeline \/ InitBenchmark \/ InitExtraction \/ InitEvaluation

Next ==
  \/ QuickExtract
  \/ ExtractV1
  \/ ExtractV2
  \/ QuickSkipFile
  \/ QuickEnterFile
  \/ QuickAnalyzeStep
  \/ QuickReturn
  \/ QuickSave
  \/ V1Collect
  \/ V1AnalyzeStep
  \/ V1Finish
  \/ V2Collect
  \/ V2AnalyzeStep
  \/ V2Finish
  \/ BenchLoad
  \/ BenchSkipProject
  \/ BenchEnterProject
  \/ BenchCall
  \/ BenchCallThrows
  \/ StartSample
  \/ TestReturns
  \/ TestThrows
  \/ BenchReturn
  \/ BenchProjectDone
  \/ Summary
  \/ EventLoop
  \/ EvaluateStep
  \/ EvaluateFinish

Spec == Init /\ [][Next]_vars

\* the programs are single-threaded and run to completion: a step of the
\* analysis or of the benchmark that can be taken is taken (an extraction
\* routine is a single call, for which nothing is assumed)
FairSpec == Spec /\ WF_vars(routine \notin Extracting /\ Next)

TypeOK ==
  /\ routine \in { "quick", "extractV1", "extractV2", "benchmark",
                   "evaluateTools" }
                 \cup Extracting
  /\ pc \in { "main", "analyzePatterns", "analyzeProject", "saved", "bench",
              "patterns", "forEach", "test", "crashed", "returned", "exited" }
  /\ timers \in 0..1
  /\ timedOut \in BOOLEAN

----------------------------------------------------------------------------
(* Properties *)

Range(f) == { f[i] : i \in DOMAIN f }

\* the benchmark entries of a finished benchmark run, whatever the project
Summarised ==
  { << project, i >> \in (DOMAIN status) \X (1..TopN) : i <= Len(status[project]) }

\* the engine call of sample i of the running benchmarkPattern call ran
\* longer than the deadline
RanPastDeadline(i) == engine[i].kind = "returns" /\ engine[i].ms > DEADLINE

\* C1: in benchmarkPattern, every input whose engine call runs longer than
\* the 5000 ms deadline gets a timed-out sample (timeout = true,
\* result = 'timeout')
C1_DeadlineYieldsTimeoutSample ==
  \A i \in 1..Len(results) :
    RanPastDeadline(i) =>
      Truthy(results[i].timeout) /\ results[i].result = "timeout"

\* C2: the harness never hangs on one sample: an engine call that has been
\* started is eventually left behind and the harness goes on to the next
\* sample
C2_SampleEventuallyAbandoned ==
  (routine = "quick" /\ pc = "test") ~> (pc = "forEach")

\* C3: the severity of a benchmarked pattern is CRITICAL if and only if one
\* of its samples timed out, a sample timing out when its engine call ran
\* past the deadline; such a sample never gets a lower severity
C3_CriticalIffTimedOut ==
  \A e \in Summarised :
    LET rs == allBenchmarks[e[1]][e[2]].results IN
      (status[e[1]][e[2]] = "CRITICAL")
        <=> (\E k \in 1..Len(rs) :
               Truthy(rs[k].timeout) \/ rs[k].duration > DEADLINE)

\* the duration of the sample with the largest input length
LargestInputDuration(rs) ==
  LET k == CHOOSE i \in 1..Len(rs) :
             \A j \in 1..Len(rs) : rs[i].inputLength >= rs[j].inputLength
  IN rs[k].duration

\* the threshold table of section 4.3 for one elapsed time
Tier(ms) == IF ms > 1000 THEN "HIGH" ELSE IF ms > 100 THEN "MEDIUM" ELSE "LOW"

\* C4 (as claimed): without timed-out sample the severity is determined by
\* the elapsed time of the sample with the largest input length
C4_SeverityOfLargestInput ==
  \A e \in Summarised :
    LET rs == allBenchmarks[e[1]][e[2]].results IN
      ~hasTimeout(rs) => status[e[1]][e[2]] = Tier(LargestInputDuration(rs))

\* C4 (amended): without sample flagged as timed out the severity is
\* determined by the largest elapsed time over all the samples: HIGH if
\* some sample took more than 1000 ms, otherwise MEDIUM if some sample took
\* more than 100 ms, otherwise LOW
C4_SeverityOfSlowestSample ==
  \A e \in Summarised :
    LET rs == allBenchmarks[e[1]][e[2]].results
        st == status[e[1]][e[2]]
        Over(ms) == \E k \in 1..Len(rs) : rs[k].duration > ms IN
      ~hasTimeout(rs) =>
        /\ (st = "HIGH") <=> Over(1000)
        /\ (st = "MEDIUM") <=> (~Over(1000) /\ Over(100))
        /\ (st = "LOW") <=> ~Over(100)

\* C4 witness: an entry is rated HIGH on the time of a smaller input while
\* its largest input took no more than 100 ms
C4_Witness ==
  \E e \in Summarised :
    LET rs == allBenchmarks[e[1]][e[2]].results IN
      /\ ~hasTimeout(rs)
      /\ status[e[1]][e[2]] = "HIGH"
      /\ LargestInputDuration(rs) <= 100

\* C5: when the engine rejects the pattern or its flags at benchmark time,
\* benchmarkPattern records an error sample for every input and the error
\* does not leave the harness
C5_CompileErrorRecorded ==
  pc = "crashed" =>
    /\ Len(results) = Len(testInputs)
    /\ \A i \in 1..Len(results) : results[i].result = "error"

\* C6: after the benchmark run every project has as many benchmark entries
\* as it has vulnerable patterns
C6_OneEntryPerVulnerable ==
  (Benchmarking /\ pc \in { "returned", "exited" }) =>
    \A project \in Range(analysisResults.keys) :
      LET n == Len(analysisResults.results[project].vulnerable) IN
        IF project \in DOMAIN allBenchmarks
        THEN Len(allBenchmarks[project]) = n
        ELSE n = 0

\* C7: only patterns classified vulnerable are passed to benchmarkPattern:
\* none that isSafe reports safe, none that the analysis skips, none whose
\* analysis throws
C7_OnlyVulnerableBenchmarked ==
  \A i \in 1..Len(calls) :
    /\ calls[i].verdict = "vuln"
    /\ calls[i].compile = "ok"
    /\ ~("u" \in calls[i].flags /\ "i" \in calls[i].flags)

\* C7 witness: a pattern has been benchmarked in a run whose analysis also
\* classified a pattern safe
C7_Witness ==
  /\ Len(calls) > 0
  /\ \E project \in Range(analysisResults.keys) :
       Len(analysisResults.results[project].safe) > 0

\* the candidates the finished analysis was given
Extracted == IF routine = "quick" THEN Concat(files) ELSE patterns

\* the output lists of the finished analysis, one after the other
RECURSIVE QuickOutput(_)
QuickOutput(keys) ==
  IF keys = << >> THEN << >>
  ELSE allResults[Head(keys)].vulnerable \o allResults[Head(keys)].safe
         \o QuickOutput(Tail(keys))

Output ==
  IF routine = "quick" THEN QuickOutput(resultKeys)
  ELSE vulnerable \o safe \o errorPatterns

AnalysisFinished ==
  \/ routine = "quick" /\ pc = "saved"
  \/ routine \in { "extractV1", "extractV2" } /\ pc \in { "returned", "exited" }

\* C8: every extracted candidate yields exactly one verdict: the sizes of
\* the output lists sum to the number of candidates
C8_OneVerdictPerCandidate ==
  AnalysisFinished => Len(Output) = Len(Extracted)

\* an output entry made from candidate c
EntryOf(c, e) ==
  e.pattern = c.pattern /\ e.flags = c.flags /\ e.file = c.file

\* C9: a candidate with both the u and the i flag is reported; it is never
\* absent from every output list
C9_UnicodeCaseInsensitiveReported ==
  AnalysisFinished =>
    \A i \in 1..Len(Extracted) :
      ("u" \in Extracted[i].flags /\ "i" \in Extracted[i].flags) =>
        \E k \in 1..Len(Output) : EntryOf(Extracted[i], Output[k])

\* every safe list there is: the local one, the per-project ones, the saved
\* ones and the returned one
SafeEntries ==
  Range(safe)
    \cup UNION { Range(allResults[project].safe) : project \in DOMAIN allResults }
    \cup UNION { Range(analysisResults.results[project].safe) :
                 project \in DOMAIN analysisResults.results }
    \cup (IF projectResults = NoResults THEN {}
          ELSE Range(projectResults.safePatterns))

C11_ErrorRecordedWithReason ==
  AnalysisFinished =>
    \A i \in 1..Len(Extracted) :
      Throws(Extracted[i]) =>
        \E k \in 1..Len(Output) :
          /\ EntryOf(Extracted[i], Output[k])
          /\ "error" \in DOMAIN Output[k]
          /\ Output[k].error = Extracted[i].message

\* the number of elements of a sequence that satisfy a test
Count(s, Test(_)) == Cardinality({ i \in 1..Len(s) : Test(s[i]) })

\* a candidate that every analysis routine classifies: both engine calls
\* return and no routine leaves it out before the try body
Classifiable(c) ==
  /\ ~Throws(c)
  /\ ~("u" \in c.flags /\ "i" \in c.flags)
  /\ ~c.nul /\ c.length <= MaxPatternLength

Ascending(s, Key(_)) ==
  \A i, j \in 1..Len(s) : i < j => Key(s[i]) < Key(s[j])

\* C13: the inputs generateReDoSInputs returns, the results benchmarkPattern
\* records and the samples of every benchmark entry are in strictly
\* increasing order of input length
C13_SamplesAscending ==
  /\ Ascending(testInputs, LAMBDA t : t.length)
  /\ Ascending(results, LAMBDA r : r.inputLength)
  /\ \A project \in DOMAIN allBenchmarks :
       \A i \in 1..Len(allBenchmarks[project]) :
         Ascending(allBenchmarks[project][i].results, LAMBDA r : r.inputLength)

\* the lengths of a list of inputs
DistinctLengths(inputs) == { inputs[i].length : i \in 1..Len(inputs) }

\* C14: generateReDoSInputs returns inputs of at least three distinct
\* lengths, and benchmarkPattern makes exactly one engine call per input:
\* the calls start with the first input, every call is made on the input
\* the loop is at, returning from it moves the loop to the next input, and
\* benchmarkPattern returns when the loop is past the last input
C14_ThreeLengthsOneCallPerInput ==
  [][ /\ testInputs' # << >> => Cardinality(DistinctLengths(testInputs')) >= 3
      /\ (pc = "patterns" /\ pc' = "forEach") => inIdx' = 1
      /\ (pc = "forEach" /\ pc' = "test") =>
           inIdx' = inIdx /\ inIdx <= Len(testInputs)
      /\ (pc = "test" /\ pc' = "forEach") =>
           inIdx' = inIdx + 1 /\ Len(results') = inIdx
      /\ (pc = "forEach" /\ pc' = "patterns") =>
           inIdx = Len(testInputs) + 1 ]_vars

\* C14 witness: benchmarkPattern has returned for a pattern of two input
\* categories, one engine call made for each of its six inputs
C14_Witness ==
  /\ pc = "patterns"
  /\ Len(testInputs) = 6
  /\ Len(results) = 6
  /\ Cardinality(DistinctLengths(testInputs)) >= 3

\* C15: once a sample of a pattern has timed out (its engine call ran past
\* the deadline, or it is flagged as timed out), no sample with a larger
\* input is executed for that pattern
C15_NoLargerSampleAfterTimeout ==
  \A i, j \in 1..Len(results) :
    (i < j /\ (RanPastDeadline(i) \/ Truthy(results[i].timeout))) =>
      results[j].inputLength <= results[i].inputLength

\* an extraction function has returned
ExtractionDone == routine \in Extracting /\ pc \in { "returned", "exited" }

\* a candidate made from the regex expression s
CandidateOf(s, c) == c.pattern = s.pattern

\* C16: extraction keeps a candidate if and only if the length of its raw
\* pattern is between 6 and 500 inclusive: a literal of the source text has
\* a candidate in the result exactly when its pattern has such a length
C16_KeptIffLengthInRange ==
  ExtractionDone =>
    \A k \in 1..Len(files[1].snippets) :
      LET s == files[1].snippets[k] IN
        s.kind = "literal" =>
          ((Len(s.pattern) >= 6 /\ Len(s.pattern) <= 500)
             <=> \E i \in 1..Len(patterns) : CandidateOf(s, patterns[i]))

\* one of the two revisions of extractRegexFromFile has returned
ExtractRegexFromFileDone ==
  /\ routine \in { "extractRegexFromFileV1", "extractRegexFromFileV2" }
  /\ pc \in { "returned", "exited" }

\* C17: a constructor call with a quoted pattern and a quoted flag string
\* yields a candidate with the pattern of the first argument and the flags
\* of the second; without second argument the flags are empty
C17_ConstructorPatternAndFlags ==
  ExtractRegexFromFileDone =>
    \A k \in 1..Len(files[1].snippets) :
      LET s == files[1].snippets[k] IN
        s.kind = "constructor" =>
          \E i \in 1..Len(patterns) :
            /\ patterns[i].type = "constructor"
            /\ patterns[i].full = s.source
            /\ patterns[i].pattern = s.pattern
            /\ patterns[i].flags = s.flags

\* C18: a constructor call whose first argument is an identifier yields a
\* candidate of the constructed kind that has no raw pattern; it is never
\* absent from the result
C18_VariableReferenceRecorded ==
  ExtractRegexFromFileDone =>
    \A k \in 1..Len(files[1].snippets) :
      LET s == files[1].snippets[k] IN
        s.kind = "variable" =>
          \E i \in 1..Len(patterns) :
            /\ patterns[i].type # "literal"
            /\ patterns[i].full = s.source

\* a candidate made from a regex literal
IsLiteralCandidate(c) == "type" \in DOMAIN c => c.type = "literal"

\* the literal candidates of the result
LiteralCandidates == SelectSeq(patterns, IsLiteralCandidate)

\* the literals of the source text that the filter does not drop, in source
\* order, one element per occurrence
KeptLiterals ==
  SelectSeq(files[1].snippets,
            LAMBDA s : /\ s.kind = "literal"
                       /\ \E i \in 1..Len(LiteralCandidates) :
                            CandidateOf(s, LiteralCandidates[i]))

\* the source text is made of regex expressions only, one per line
RegexExpressionsOnly ==
  \A k \in 1..Len(files[1].snippets) :
    files[1].snippets[k].kind \in { "literal", "constructor", "variable" }

\* C19: extraction does not deduplicate: in a text of regex expressions,
\* the literal candidates of the result are the occurrences of the
\* literals that pass the filter, one candidate per occurrence, in source
\* order
C19_OneCandidatePerOccurrence ==
  (ExtractionDone /\ RegexExpressionsOnly) =>
    /\ Len(LiteralCandidates) = Len(KeptLiterals)
    /\ \A k \in 1..Len(KeptLiterals) :
         /\ LiteralCandidates[k].pattern = KeptLiterals[k].pattern
         /\ LiteralCandidates[k].flags = KeptLiterals[k].flags

\* C19 witness: a literal occurs twice in the source text and the result
\* holds two candidates for it
C19_Witness ==
  /\ ExtractionDone
  /\ \E i, j \in 1..Len(files[1].snippets) :
       /\ i < j
       /\ files[1].snippets[i] = files[1].snippets[j]
       /\ files[1].snippets[i].kind = "literal"
       /\ Count(patterns, LAMBDA c : CandidateOf(files[1].snippets[i], c)) = 2

\* the files an output entry names as the origins of its pattern
Origins(e) == { e.file }

\* C20: when the same (pattern, flags) pair is extracted from two different
\* files, the output of the finished analysis holds exactly one verdict
\* entry for the pair, and that entry names both files
C20_OneEntryPerPatternAcrossFiles ==
  AnalysisFinished =>
    \A i, j \in 1..Len(Extracted) :
      LET c == Extracted[i]
          d == Extracted[j]
          SamePair(e) == e.pattern = c.pattern /\ e.flags = c.flags
      IN (/\ c.file # d.file
          /\ SamePair(d)
          /\ Classifiable(c)) =>
           /\ Count(Output, SamePair) = 1
           /\ \E k \in 1..Len(Output) :
                SamePair(Output[k]) /\ { c.file, d.file } \subseteq Origins(Output[k])

\* the length filter of the extraction function that runs
RoutineKeeps(pattern) ==
  CASE routine = "quickExtract" -> KeepQuick(pattern)
    [] routine = "extractRegexFromFileV1" -> KeepV1(pattern)
    [] routine = "extractRegexFromFileV2" -> KeepV2(pattern)

\* the result holds a candidate with the pattern and the flags of s
Recovered(s) ==
  \E i \in 1..Len(patterns) :
    patterns[i].pattern = s.pattern /\ patterns[i].flags = s.flags

\* C21: the literal /^(a+)+$/gi is recovered with pattern ^(a+)+$ and flags
\* gi whatever text surrounds it, text with a slash before the literal on
\* the same line included
C21_LiteralRecoveredInAnyText ==
  ExtractionDone =>
    \A k \in 1..Len(files[1].snippets) :
      LET s == files[1].snippets[k] IN
        (/\ s.kind \in { "literal", "embedded" }
         /\ s.pattern = << "^", "(", "a", "+", ")", "+", "$" >>
         /\ s.flags = << "g", "i" >>) =>
          Recovered(s)

\* C22: an opening slash without closing slash on its line is skipped alone:
\* every literal on a later line that passes the filter of the extraction
\* function is in the result
C22_UnterminatedSkippedAlone ==
  ExtractionDone =>
    \A k, j \in 1..Len(files[1].snippets) :
      (/\ k < j
       /\ files[1].snippets[k].kind = "unterminated"
       /\ files[1].snippets[j].kind = "literal"
       /\ RoutineKeeps(files[1].snippets[j].pattern)) =>
        Recovered(files[1].snippets[j])

\* C23: no candidate of the result is a slash-delimited piece of a line
\* comment or of a quoted string of the source text
C23_NothingFromCommentsOrStrings ==
  ExtractionDone =>
    \A i \in 1..Len(patterns) :
      \A k \in 1..Len(files[1].snippets) :
        files[1].snippets[k].kind \in { "comment", "string" } =>
          ~IsInfix(<< "/" >> \o patterns[i].pattern \o << "/" >>,
                   files[1].snippets[k].source)

\* C24: a candidate is immutable once extracted: while the candidates are
\* classified, every candidate object of the list keeps the fields and the
\* field values it was extracted with
C24_CandidatesNeverMutated ==
  [][ (pc \in { "analyzePatterns", "analyzeProject" }) => (patterns' = patterns) ]_vars

\* patterns of the known-vulnerable and of the known-safe collection
KnownVulnerable == { "^(a+)+$", "^(\\d+\\.)*\\d+$" }
KnownSafe == { "^[a-zA-Z0-9]+$" }

\* C25: a pattern of the known-vulnerable collection that has been
\* benchmarked has severity MEDIUM, HIGH or CRITICAL, never LOW; a pattern
\* of the known-safe collection that has been classified is in a safe list
C25_KnownVulnerableNeverLow ==
  /\ \A e \in Summarised :
       allBenchmarks[e[1]][e[2]].pattern \in KnownVulnerable =>
         status[e[1]][e[2]] \in { "MEDIUM", "HIGH", "CRITICAL" }
  /\ AnalysisFinished =>
       \A i \in 1..Len(Extracted) :
         Extracted[i].pattern \in KnownSafe =>
           \E e \in SafeEntries : EntryOf(Extracted[i], e)

C27_OneSamplePerInputInOrder ==
  pc # "crashed" =>
    /\ \A i \in 1..Len(results) :
         i <= Len(testInputs) /\ results[i].inputLength = testInputs[i].length
    /\ pc = "forEach" => Len(results) = inIdx - 1
    /\ pc \notin { "forEach", "test" } => Len(results) = Len(testInputs)
    /\ \A e \in (DOMAIN allBenchmarks) \X (1..TopN) :
         e[2] <= Len(allBenchmarks[e[1]]) =>
           \E c \in 1..Len(calls) :
             LET rs == allBenchmarks[e[1]][e[2]].results IN
               /\ Len(rs) = Len(calls[c].testInputs)
               /\ \A i \in 1..Len(rs) :
                    rs[i].inputLength = calls[c].testInputs[i].length

\* C27 witness: benchmarkPattern has returned a list in which one sample was
\* pushed by the catch handler and another by the normal branch
C27_Witness ==
  /\ pc = "patterns"
  /\ Len(results) = Len(testInputs)
  /\ \E i, j \in 1..Len(results) :
       results[i].result = "error" /\ results[j].result = "false"

\* C28: at most one deadline timer is pending at any moment; a timer is
\* pending only while the engine call of a sample runs: it has been cleared
\* when the next sample starts, after a call that returned and after a call
\* that threw, and none is pending once benchmarkPattern has returned
C28_TimerClearedAfterEverySample ==
  /\ timers <= 1
  /\ pc = "test" => timers = 1
  /\ pc # "test" => timers = 0

\* C28 witness: the loop is about to start a sample after a sample whose
\* engine call threw and a sample whose engine call returned
C28_Witness ==
  /\ pc = "forEach"
  /\ inIdx <= Len(testInputs)
  /\ timers = 0
  /\ \E i, j \in 1..Len(results) :
       results[i].result = "error" /\ results[j].result \in { "true", "false" }

\* evaluateTools has returned
EvaluationDone ==
  routine = "evaluateTools" /\ pc \in { "returned", "exited" }

\* C29: after evaluateTools, for each tool, total is the number of test
\* cases, details holds one entry per test case in the order of the test
\* cases, correct is the number of entries that are correct, and a test case
\* on which the tool threw has an entry with actual ERROR that is not correct
C29_TotalsMatchDetails ==
  EvaluationDone =>
    \A tool \in DOMAIN evalResults :
      LET r == evalResults[tool] IN
        /\ r.total = Len(toolTestCases)
        /\ Len(r.details) = Len(toolTestCases)
        /\ \A i \in 1..Len(r.details) :
             /\ r.details[i].pattern = toolTestCases[i].pattern
             /\ r.details[i].expected = toolTestCases[i].expected
             /\ tools[tool][i] = "throws" =>
                  r.details[i].actual = "ERROR" /\ ~r.details[i].correct
        /\ r.correct = Count(r.details, LAMBDA d : d.correct)

\* C29 witness: evaluateTools has returned after a tool threw on a test case
\* and answered as expected on another
C29_Witness ==
  /\ EvaluationDone
  /\ \E tool \in DOMAIN evalResults :
       /\ \E i \in 1..Len(toolTestCases) : tools[tool][i] = "throws"
       /\ evalResults[tool].correct > 0

\* the accuracy of a is at least that of b, both totals being positive
AtLeastAsAccurate(a, b) == a.correct * b.total >= b.correct * a.total

\* C30: the tool evaluateTools recommends has the largest accuracy
\* (correct / total) of the tools, and it is safe-regex, the first listed,
\* when both tools have the same accuracy
C30_MostAccurateRecommended ==
  EvaluationDone =>
    /\ bestTool \in DOMAIN evalResults
    /\ \A tool \in DOMAIN evalResults :
         AtLeastAsAccurate(evalResults[bestTool], evalResults[tool])
    /\ (/\ AtLeastAsAccurate(evalResults["safe-regex"],
                             evalResults["redos-detector"])
        /\ AtLeastAsAccurate(evalResults["redos-detector"],
                             evalResults["safe-regex"]))
         => bestTool = "safe-regex"

\* C30 witness: the two tools differ on a test case and have the same
\* accuracy, and safe-regex is recommended
C30_Witness ==
  /\ EvaluationDone
  /\ evalResults["safe-regex"].details # evalResults["redos-detector"].details
  /\ evalResults["safe-regex"].correct = evalResults["redos-detector"].correct
  /\ evalResults["safe-regex"].correct > 0
  /\ bestTool = "safe-regex"

====
